---- MODULE Spec2Model ----
(***************************************************************************)
(* A model of frontend/src/util/util.ts of zeno: the start-up sequence     *)
(* getInitialData, the column key columnHash and the metric range          *)
(* reduction getMetricRange.                                               *)
(***************************************************************************)
EXTENDS Integers, Sequences, FiniteSets, TLC

VARIABLES
    pc,        \* position of the one run of getInitialData
    stores,    \* the svelte stores getInitialData writes
    log,       \* service calls issued and store writes, in program order
    failed,    \* the service call whose promise rejected, "" if none did
    c1, c2,    \* two ZenoColumn values handed to columnHash
    h1, h2,    \* the keys columnHash returned for c1 and c2
    hashed,    \* TRUE once columnHash has returned
    res,       \* the matrix handed to getMetricRange
    result,    \* the pair getMetricRange returned
    called     \* TRUE once getMetricRange has returned

vars == <<pc, stores, log, failed, c1, c2, h1, h2, hashed, res, result, called>>
loadVars == <<pc, stores, log, failed>>
hashVars == <<c1, c2, h1, h2, hashed>>
rangeVars == <<res, result, called>>

\* ------------------------------------------------------------------------
\* Bounds
\* ------------------------------------------------------------------------
MaxList == 2    \* longest models / metrics list a response carries
MaxLen == 2     \* longest column name / model, in letters
MaxRows == 2    \* rows of a result matrix
MaxCols == 2    \* cells of one row
MaxVal == 2     \* cells range over -MaxVal..MaxVal and null

RECURSIVE SeqsUpTo(_, _)
SeqsUpTo(S, n) ==
    IF n = 0 THEN {<<>>}
    ELSE LET shorter == SeqsUpTo(S, n - 1)
         IN  shorter \cup {Append(s, x) : s \in shorter, x \in S}

\* ========================================================================
\* getInitialData
\* ========================================================================

\* A store holds Unset until this run writes it, then Val(v).
Unset == <<>>
Val(v) == <<v>>

StoreNames == {"settings", "rowsPerPage", "models", "metrics", "folders",
               "model", "metric", "slices", "reports", "tags"}

ServiceCalls == <<"getSettings", "getInitialInfo", "getSlices",
                  "getReports", "getTags">>

Awaiting == {ServiceCalls[i] : i \in DOMAIN ServiceCalls}

CallEvent(name) == "ZenoService." \o name
SetEvent(store) == store \o ".set"

\* The responses the service can resolve with.
SettingsResponses == {[task |-> "classification", samples |-> n] : n \in {10, 30}}
InitialInfoResponses ==
    [models : SeqsUpTo({"m1", "m2"}, MaxList),
     metrics : SeqsUpTo({"acc", "f1"}, MaxList),
     folders : {<<>>, <<"fold">>}]
SlicesResponses == {[k \in {} |-> ""], [short |-> "len < 5"]}
ReportsResponses == {<<>>, <<[name |-> "r1", reportPredicates |-> <<>>]>>}
TagsResponses == {[k \in {} |-> ""], [hard |-> "tag1"]}

\* Object.entries(obj): the [key, value] pairs of the object's own properties.
ObjectEntries(obj) == {<<k, obj[k]>> : k \in DOMAIN obj}

\* new Map(entries): the map that sends each key to its value.
NewMap(entries) ==
    [k \in {e[1] : e \in entries} |-> (CHOOSE e \in entries : e[1] = k)[2]]

\* FirstOrEmpty taking the last element of the list instead of the first.
FirstOrEmptyLast(list) == IF Len(list) > 0 THEN list[Len(list)] ELSE ""

FirstOrEmpty(list) == IF Len(list) > 0 THEN list[1] ELSE ""

LoadInit ==
    /\ pc = "idle"
    /\ stores = [s \in StoreNames \cup {"ready"} |->
                    IF s = "ready" THEN Val(FALSE) ELSE Unset]
    /\ log = <<>>
    /\ failed = ""

\* getInitialData is called: it issues getSettings and suspends.
getInitialData ==
    /\ pc = "idle"
    /\ log' = Append(log, CallEvent("getSettings"))
    /\ pc' = "getSettings"
    /\ UNCHANGED <<stores, failed>>

ResolveSettings ==
    /\ pc = "getSettings"
    /\ \E sets \in SettingsResponses :
          stores' = [stores EXCEPT !.settings = Val(sets),
                                   !.rowsPerPage = Val(sets.samples)]
    /\ log' = log \o <<SetEvent("settings"), SetEvent("rowsPerPage"),
                       CallEvent("getInitialInfo")>>
    /\ pc' = "getInitialInfo"
    /\ UNCHANGED failed

ResolveInitialInfo ==
    /\ pc = "getInitialInfo"
    /\ \E inits \in InitialInfoResponses :
          stores' = [stores EXCEPT !.models = Val(inits.models),
                                   !.metrics = Val(inits.metrics),
                                   !.folders = Val(inits.folders),
                                   !.model = Val(FirstOrEmpty(inits.models)),
                                   !.metric = Val(FirstOrEmpty(inits.metrics))]
    /\ log' = log \o <<SetEvent("models"), SetEvent("metrics"),
                       SetEvent("folders"), SetEvent("model"),
                       SetEvent("metric"), CallEvent("getSlices")>>
    /\ pc' = "getSlices"
    /\ UNCHANGED failed

ResolveSlices ==
    /\ pc = "getSlices"
    /\ \E slicesRes \in SlicesResponses :
          stores' = [stores EXCEPT
                        !.slices = Val(NewMap(ObjectEntries(slicesRes)))]
    /\ log' = log \o <<SetEvent("slices"), CallEvent("getReports")>>
    /\ pc' = "getReports"
    /\ UNCHANGED failed

\* ResolveReports with ready set before the tags are loaded.
ResolveReportsReadyEarly ==
    /\ pc = "getReports"
    /\ \E reportsRes \in ReportsResponses :
          stores' = [stores EXCEPT !.reports = Val(reportsRes),
                                   !.ready = Val(TRUE)]
    /\ log' = log \o <<SetEvent("reports"), SetEvent("ready"),
                       CallEvent("getTags")>>
    /\ pc' = "getTags"
    /\ UNCHANGED failed

ResolveReports ==
    /\ pc = "getReports"
    /\ \E reportsRes \in ReportsResponses :
          stores' = [stores EXCEPT !.reports = Val(reportsRes)]
    /\ log' = log \o <<SetEvent("reports"), CallEvent("getTags")>>
    /\ pc' = "getTags"
    /\ UNCHANGED failed

ResolveTags ==
    /\ pc = "getTags"
    /\ \E tagsRes \in TagsResponses :
          stores' = [stores EXCEPT
                        !.tags = Val(NewMap(ObjectEntries(tagsRes))),
                        !.ready = Val(TRUE)]
    /\ log' = log \o <<SetEvent("tags"), SetEvent("ready")>>
    /\ pc' = "done"
    /\ UNCHANGED failed

\* Reject with the error swallowed and ready set all the same.
RejectSwallowed ==
    /\ pc \in Awaiting
    /\ pc' = "done"
    /\ failed' = pc
    /\ stores' = [stores EXCEPT !.ready = Val(TRUE)]
    /\ log' = Append(log, SetEvent("ready"))

\* The awaited call rejects: the await throws and the run ends there.
Reject ==
    /\ pc \in Awaiting
    /\ pc' = "rejected"
    /\ failed' = pc
    /\ UNCHANGED <<stores, log>>

\* ========================================================================
\* columnHash
\* ========================================================================

\* The members of the ZenoColumnType enumeration, as the strings they
\* concatenate to.
METADATA == "METADATA"
OUTPUT == "OUTPUT"
EMBEDDING == "EMBEDDING"
ZenoColumnType == {METADATA, OUTPUT, EMBEDDING}

Letters == {"a", "b"}

\* Every string of at most n letters.
RECURSIVE Strings(_)
Strings(n) ==
    IF n = 0 THEN {""}
    ELSE LET shorter == Strings(n - 1)
         IN  shorter \cup {s \o l : s \in shorter, l \in Letters}

Transforms == {"", "t"}

\* A ZenoColumn; a column whose model is absent has no model field.
ZenoColumn ==
    [columnType : ZenoColumnType, name : Strings(MaxLen),
     model : Strings(MaxLen), transform : Transforms]
    \cup
    [columnType : ZenoColumnType, name : Strings(MaxLen),
     transform : Transforms]

\* JavaScript truthiness of col.model: absent and "" are both falsy.
ModelTruthy(col) == "model" \in DOMAIN col /\ col.model # ""

\* columnHash with the transform appended to the key.
columnHashWithTransform(col) ==
    (IF col.columnType = METADATA THEN "" ELSE col.columnType)
    \o col.name
    \o (IF ModelTruthy(col) THEN col.model ELSE "")
    \o col.transform

\* columnHash with the type left out of every key.
columnHashNoType(col) ==
    col.name \o (IF ModelTruthy(col) THEN col.model ELSE "")

\* columnHash with the type in every key, METADATA included.
columnHashAlwaysType(col) ==
    col.columnType
    \o col.name
    \o (IF ModelTruthy(col) THEN col.model ELSE "")

columnHash(col) ==
    (IF col.columnType = METADATA THEN "" ELSE col.columnType)
    \o col.name
    \o (IF ModelTruthy(col) THEN col.model ELSE "")

HashInit ==
    /\ c1 \in ZenoColumn
    /\ c2 \in ZenoColumn
    /\ h1 = ""
    /\ h2 = ""
    /\ hashed = FALSE

\* columnHash is applied to both columns.
HashColumns ==
    /\ ~hashed
    /\ h1' = columnHash(c1)
    /\ h2' = columnHash(c2)
    /\ hashed' = TRUE
    /\ UNCHANGED <<c1, c2>>

\* ========================================================================
\* getMetricRange
\* ========================================================================

\* JavaScript values a cell or a bound can hold.
Num(v) == [kind |-> "number", val |-> v]
Infinity == [kind |-> "infinity", val |-> 1]
NegInfinity == [kind |-> "infinity", val |-> -1]
null == [kind |-> "null", val |-> 0]

\* ToNumber: null converts to 0, a number to itself.
ToNumber(x) == IF x = null THEN Num(0) ELSE x

\* x <= y on numbers, the infinities included.
LessEq(x, y) ==
    \/ x = NegInfinity
    \/ y = Infinity
    \/ x.kind = "number" /\ y.kind = "number" /\ x.val <= y.val

MathMin(a, b) ==
    LET x == ToNumber(a)
        y == ToNumber(b)
    IN  IF LessEq(x, y) THEN x ELSE y

MathMax(a, b) ==
    LET x == ToNumber(a)
        y == ToNumber(b)
    IN  IF LessEq(x, y) THEN y ELSE x

Cells == {null} \cup {Num(v) : v \in (0 - MaxVal)..MaxVal}
Matrices == SeqsUpTo(SeqsUpTo(Cells, MaxCols), MaxRows)

\* The body of the inner callback, run on one cell n.
VisitCell(st, n) ==
    [allNull |-> IF n # null THEN FALSE ELSE st.allNull,
     range |-> <<MathMin(st.range[1], n), MathMax(st.range[2], n)>>]

\* arr.forEach(...) from cell i on.
RECURSIVE ForEachCell(_, _, _)
ForEachCell(arr, i, st) ==
    IF i > Len(arr) THEN st
    ELSE ForEachCell(arr, i + 1, VisitCell(st, arr[i]))

\* ForEachRow with the range started afresh on every row.
RECURSIVE ForEachRowFresh(_, _, _)
ForEachRowFresh(matrix, i, st) ==
    IF i > Len(matrix) THEN st
    ELSE ForEachRowFresh(matrix, i + 1,
            ForEachCell(matrix[i], 1,
                [allNull |-> st.allNull, range |-> <<Infinity, NegInfinity>>]))

\* res.forEach(...) from row i on.
RECURSIVE ForEachRow(_, _, _)
ForEachRow(matrix, i, st) ==
    IF i > Len(matrix) THEN st
    ELSE ForEachRow(matrix, i + 1, ForEachCell(matrix[i], 1, st))

\* getMetricRange without the check of allNull.
getMetricRangeUnchecked(matrix) ==
    ForEachRow(matrix, 1,
               [allNull |-> TRUE, range |-> <<Infinity, NegInfinity>>]).range

getMetricRange(matrix) ==
    LET st == ForEachRow(matrix, 1,
                         [allNull |-> TRUE, range |-> <<Infinity, NegInfinity>>])
    IN  IF st.allNull THEN <<Infinity, NegInfinity>> ELSE st.range

RangeInit ==
    /\ res \in Matrices
    /\ result = <<null, null>>
    /\ called = FALSE

\* getMetricRange is applied to the matrix.
CallGetMetricRange ==
    /\ ~called
    /\ result' = getMetricRange(res)
    /\ called' = TRUE
    /\ UNCHANGED res

\* ========================================================================
\* Specifications
\* ========================================================================

\* Values of the variables a specification does not exercise.
HashIdle ==
    /\ c1 = [columnType |-> METADATA, name |-> "", transform |-> ""]
    /\ c2 = [columnType |-> METADATA, name |-> "", transform |-> ""]
    /\ h1 = ""
    /\ h2 = ""
    /\ hashed = FALSE

RangeIdle ==
    /\ res = <<>>
    /\ result = <<null, null>>
    /\ called = FALSE

Init == LoadInit /\ HashIdle /\ RangeIdle

Next ==
    \/ getInitialData /\ UNCHANGED <<hashVars, rangeVars>>
    \/ ResolveSettings /\ UNCHANGED <<hashVars, rangeVars>>
    \/ ResolveInitialInfo /\ UNCHANGED <<hashVars, rangeVars>>
    \/ ResolveSlices /\ UNCHANGED <<hashVars, rangeVars>>
    \/ ResolveReports /\ UNCHANGED <<hashVars, rangeVars>>
    \/ ResolveTags /\ UNCHANGED <<hashVars, rangeVars>>
    \/ Reject /\ UNCHANGED <<hashVars, rangeVars>>

Spec == Init /\ [][Next]_vars

InitHash == LoadInit /\ HashInit /\ RangeIdle

NextHash == HashColumns /\ UNCHANGED <<loadVars, rangeVars>>

SpecHash == InitHash /\ [][NextHash]_vars

InitRange == LoadInit /\ HashIdle /\ RangeInit

NextRange == CallGetMetricRange /\ UNCHANGED <<loadVars, hashVars>>

SpecRange == InitRange /\ [][NextRange]_vars

\* ========================================================================
\* Properties of getMetricRange
\* ========================================================================

AllCells(matrix) ==
    UNION {{matrix[i][j] : j \in DOMAIN matrix[i]} : i \in DOMAIN matrix}

NonNullCells(matrix) == AllCells(matrix) \ {null}

\* The least and the greatest of a non-empty set of finite numbers.
Least(S) == CHOOSE x \in S : \A y \in S : x.val <= y.val
Greatest(S) == CHOOSE x \in S : \A y \in S : y.val <= x.val

EmptySentinel == <<Infinity, NegInfinity>>

\* C1: for a matrix with at least one non-null cell, getMetricRange returns
\* the minimum and the maximum of the non-null cells, null cells ignored.
Cex_C1 ==
    (called /\ NonNullCells(res) # {})
        => result = <<Least(NonNullCells(res)), Greatest(NonNullCells(res))>>

\* C4: getMetricRange returns the sentinel [Infinity, -Infinity] exactly when
\* the matrix holds no non-null cell (all cells null, no rows, or only empty
\* rows).
Thm_C4 ==
    called => (result = EmptySentinel <=> NonNullCells(res) = {})

Wit_C4 ==
    /\ called
    /\ res = <<<<null, null>>>>
    /\ result = EmptySentinel

\* C5: for a matrix with at least one cell and no null cell, the returned
\* pair bounds every cell of every row and both bounds occur in the matrix.
Thm_C5 ==
    (called /\ AllCells(res) # {} /\ null \notin AllCells(res))
        => /\ \A x \in AllCells(res) :
                LessEq(result[1], x) /\ LessEq(x, result[2])
           /\ result[1] \in AllCells(res)
           /\ result[2] \in AllCells(res)

Wit_C5 ==
    /\ called
    /\ res = <<<<Num(1), Num(2)>>, <<Num(-1), Num(0)>>>>
    /\ result = <<Num(-1), Num(2)>>

\* ========================================================================
\* Properties of columnHash
\* ========================================================================

ModelOrEmpty(col) == IF "model" \in DOMAIN col THEN col.model ELSE ""

\* The identity of a column: its type with METADATA normalised to the empty
\* string, its name and its model.
Identity(col) ==
    <<IF col.columnType = METADATA THEN "" ELSE col.columnType,
      col.name, ModelOrEmpty(col)>>

\* C2: two columns hash to the same key if and only if they have the same
\* identity triple.
Cex_C2 ==
    hashed => ((h1 = h2) <=> (Identity(c1) = Identity(c2)))

\* Two columns that agree on everything but the transform field.
SameButTransform(a, b) ==
    /\ a.columnType = b.columnType
    /\ a.name = b.name
    /\ DOMAIN a = DOMAIN b
    /\ ModelOrEmpty(a) = ModelOrEmpty(b)

\* C3: columnHash returns the type (nothing for METADATA), then the name,
\* then the model (nothing when it is empty or absent); the transform has no
\* influence and the columns are left as they were.
Thm_C3 ==
    [][(~hashed /\ hashed') =>
          /\ \A t \in ZenoColumnType \ {METADATA} :
                c1.columnType = t =>
                    h1' = t \o c1.name \o ModelOrEmpty(c1)
          /\ c1.columnType = METADATA =>
                h1' = c1.name \o ModelOrEmpty(c1)
          /\ SameButTransform(c1, c2) => h1' = h2'
          /\ c1' = c1
          /\ c2' = c2]_vars

Wit_C3 ==
    /\ hashed
    /\ c1 = [columnType |-> EMBEDDING, name |-> "ab", model |-> "ba",
             transform |-> "t"]
    /\ c2 = [columnType |-> EMBEDDING, name |-> "ab", model |-> "ba",
             transform |-> ""]
    /\ h1 = "EMBEDDINGabba"
    /\ h2 = h1

\* A METADATA column and an OUTPUT column of the same name, both with an
\* empty model and an empty transform.
MetadataOutputPair(a, b) ==
    /\ a.columnType = METADATA
    /\ b.columnType = OUTPUT
    /\ a.name = b.name
    /\ ModelOrEmpty(a) = ""
    /\ ModelOrEmpty(b) = ""
    /\ a.transform = ""
    /\ b.transform = ""

\* Two OUTPUT columns of the same name with different non-empty models.
OutputModelsPair(a, b) ==
    /\ a.columnType = OUTPUT
    /\ b.columnType = OUTPUT
    /\ a.name = b.name
    /\ ModelOrEmpty(a) # ""
    /\ ModelOrEmpty(b) # ""
    /\ ModelOrEmpty(a) # ModelOrEmpty(b)

\* C6 as stated: the METADATA / OUTPUT pair hashes identically, the two
\* OUTPUT columns with different models hash differently.
Cex_C6 ==
    hashed => /\ MetadataOutputPair(c1, c2) => h1 = h2
              /\ OutputModelsPair(c1, c2) => h1 # h2

\* C6 as amended: the METADATA column hashes to its name and the OUTPUT
\* column to "OUTPUT" followed by the name, so the two keys differ; the two
\* OUTPUT columns with different models hash differently.
Thm_C6 ==
    hashed => /\ MetadataOutputPair(c1, c2) =>
                    /\ h1 = c1.name
                    /\ h2 = OUTPUT \o c2.name
                    /\ h1 # h2
              /\ OutputModelsPair(c1, c2) => h1 # h2

Wit_C6 ==
    /\ hashed
    /\ MetadataOutputPair(c1, c2)
    /\ c1.name = "ab"
    /\ h1 = "ab"
    /\ h2 = "OUTPUTab"

\* C7 as stated: a METADATA column hashes to exactly its name, whatever its
\* model and transform hold.
Cex_C7 ==
    (hashed /\ c1.columnType = METADATA) => h1 = c1.name

\* C7 as amended: a METADATA column hashes to its name followed by its model,
\* whatever its transform holds; that is exactly its name when the model is
\* empty or absent, and never its name alone otherwise.
Thm_C7 ==
    (hashed /\ c1.columnType = METADATA) =>
        /\ h1 = c1.name \o ModelOrEmpty(c1)
        /\ (h1 = c1.name) <=> (ModelOrEmpty(c1) = "")

Wit_C7 ==
    /\ hashed
    /\ c1 = [columnType |-> METADATA, name |-> "a", model |-> "b",
             transform |-> "t"]
    /\ h1 = "ab"

\* ========================================================================
\* Properties of getInitialData
\* ========================================================================

InLog(e) == \E i \in DOMAIN log : log[i] = e
Pos(e) == CHOOSE i \in DOMAIN log : log[i] = e

\* Event a comes before event b whenever b has happened.
Precedes(a, b) == InLog(b) => (InLog(a) /\ Pos(a) < Pos(b))

\* The stores the claims say are written from the response of each call.
StoresOf(call) ==
    CASE call = "getSettings" -> {"settings", "rowsPerPage"}
      [] call = "getInitialInfo" ->
            {"models", "metrics", "folders", "model", "metric"}
      [] call = "getSlices" -> {"slices"}
      [] call = "getReports" -> {"reports"}
      [] call = "getTags" -> {"tags"}

CallIndex(call) == CHOOSE i \in DOMAIN ServiceCalls : ServiceCalls[i] = call

\* The service calls of the log, in the order they were issued.
RECURSIVE CallsIn(_)
CallsIn(l) ==
    IF l = <<>> THEN <<>>
    ELSE LET rest == CallsIn(SubSeq(l, 1, Len(l) - 1))
             last == l[Len(l)]
         IN  IF \E i \in DOMAIN ServiceCalls : last = CallEvent(ServiceCalls[i])
             THEN Append(rest, last)
             ELSE rest

\* C8: ready is set to true only after the ten other stores were written,
\* and the five service calls are issued in the order getSettings,
\* getInitialInfo, getSlices, getReports, getTags, each only after the
\* stores of the previous one were written.
Thm_C8 ==
    /\ \A s \in StoreNames : Precedes(SetEvent(s), SetEvent("ready"))
    /\ stores.ready = Val(TRUE) =>
            /\ InLog(SetEvent("ready"))
            /\ \A s \in StoreNames : stores[s] # Unset
    /\ \A i \in DOMAIN CallsIn(log) :
            CallsIn(log)[i] = CallEvent(ServiceCalls[i])
    /\ \A i \in DOMAIN ServiceCalls : \A s \in StoresOf(ServiceCalls[i]) :
            /\ Precedes(CallEvent(ServiceCalls[i]), SetEvent(s))
            /\ i < Len(ServiceCalls) =>
                    Precedes(SetEvent(s), CallEvent(ServiceCalls[i + 1]))

Wit_C8 ==
    /\ pc = "done"
    /\ stores.ready = Val(TRUE)
    /\ Len(CallsIn(log)) = Len(ServiceCalls)

\* C9: once one of the awaited calls has rejected, ready has not been set to
\* true, no later call has been issued, the stores of the failing call and
\* of the later calls are as they were, and the stores of the earlier calls
\* hold the values written.
Thm_C9 ==
    failed # "" =>
        /\ ~InLog(SetEvent("ready"))
        /\ stores.ready = Val(FALSE)
        /\ \A i \in DOMAIN ServiceCalls :
              /\ i > CallIndex(failed) => ~InLog(CallEvent(ServiceCalls[i]))
              /\ i >= CallIndex(failed) =>
                    \A s \in StoresOf(ServiceCalls[i]) :
                        stores[s] = Unset /\ ~InLog(SetEvent(s))
              /\ i < CallIndex(failed) =>
                    \A s \in StoresOf(ServiceCalls[i]) :
                        stores[s] # Unset /\ InLog(SetEvent(s))

Wit_C9 ==
    /\ failed = "getSlices"
    /\ pc = "rejected"
    /\ stores.models = Val(<<"m1", "m2">>)
    /\ stores.slices = Unset

\* C10: once the getInitialInfo response has been processed, model is the
\* first of models, or "" when models is empty, and metric likewise; so when
\* ready is true, model is "" or a member of models and metric is "" or a
\* member of metrics.
Thm_C10 ==
    /\ InLog(SetEvent("metric")) =>
          LET ms == stores.models[1]
              mt == stores.metrics[1]
          IN  /\ ms # <<>> => stores.model = Val(Head(ms))
              /\ ms = <<>> => stores.model = Val("")
              /\ mt # <<>> => stores.metric = Val(Head(mt))
              /\ mt = <<>> => stores.metric = Val("")
    /\ stores.ready = Val(TRUE) =>
          /\ stores.model[1] \in
                {""} \cup {stores.models[1][i] : i \in DOMAIN stores.models[1]}
          /\ stores.metric[1] \in
                {""} \cup {stores.metrics[1][i] : i \in DOMAIN stores.metrics[1]}

Wit_C10 ==
    /\ pc = "done"
    /\ stores.models = Val(<<"m2", "m1">>)
    /\ stores.model = Val("m2")
    /\ stores.metrics = Val(<<>>)
    /\ stores.metric = Val("")

====
